---- MODULE Spec2Model ----
(***************************************************************************)
(* Model of the shell post-processor of src/shell/post-processor.go.       *)
(*                                                                         *)
(* The file holds two generations of the same design:                      *)
(*   ShellPostProcessor (lines 1-184)   and   PostProcessor (lines 186-394)*)
(* Both are modelled; the variable gen says which one an instance is.      *)
(*                                                                         *)
(* Strings that the code takes apart (environment entries, captured        *)
(* output) are sequences of atoms: an atom is one character, or a token    *)
(* such as "PACKER_BUILD_NAME" that holds no '=', quote or white space.    *)
(* Paths and artifact names are never taken apart and are TLA+ strings.    *)
(*                                                                         *)
(* config.Decode (lines 50-58, 239-248) is the external decoding service:  *)
(* Configure is modelled from the decoded Config on.                       *)
(***************************************************************************)
EXTENDS Integers, Sequences, FiniteSets, TLC

VARIABLES
    gen,        \* which generation this processor instance is
    fs,         \* the paths that exist on the filesystem
    raw,        \* the configuration as the user wrote it, before Configure
    config,     \* p.config / p.cfg
    cfgRet,     \* what Configure returned: "none" (not called), "ok", "error"
    errs,       \* the errors of the returned MultiError, in order
    pc,         \* position of PostProcess
    files,      \* artifact.Files() of the current run
    keep,       \* local keep of PostProcess
    scripts,    \* local working script list of PostProcess
    tmp,        \* tf.Name() of the current run, "" when none
    created,    \* temporary files created by the current run
    cmdEnv,     \* cmd.Env of the invocations of the current run
    ai,         \* index of the current artifact in files
    si,         \* index of the current script in scripts
    stdout,     \* capture buffer
    stderr,     \* capture buffer
    handles,    \* script files opened by the run and not yet closed
    log,        \* the invocations of the current run, in order
    failure,    \* the step of the current run that failed, "" when none
    ret,        \* what PostProcess returned
    wrote,      \* what the script run whose exit is being handled wrote to stderr
    rerun       \* whether an earlier run of PostProcess has returned

vars == <<gen, fs, raw, config, cfgRet, errs, pc, files, keep, scripts, tmp,
          created, cmdEnv, ai, si, stdout, stderr, handles, log, failure, ret,
          wrote, rerun>>

cfgVars == <<gen, raw, config, cfgRet, errs>>
runVars == <<pc, files, keep, scripts, tmp, created, cmdEnv, ai, si, stdout,
             stderr, handles, log, failure, ret, wrote, rerun>>

----------------------------------------------------------------------------
(* Bounds *)

MaxScripts == 2      \* longest multi-script field
MaxArtifacts == 2    \* longest artifact file list
MaxVars == 2         \* longest environment_vars list (SpecEnv)

----------------------------------------------------------------------------
(* Go values *)

\* A Go slice: nil, or a (possibly empty) sequence of elements.
NilSlice == [isNil |-> TRUE, elems |-> <<>>]
MkSlice(s) == [isNil |-> FALSE, elems |-> s]

SeqsUpTo(S, n) == UNION {[1..k -> S] : k \in 0..n}
SlicesUpTo(S, n) == {NilSlice} \cup {MkSlice(s) : s \in SeqsUpTo(S, n)}

Generations == {"ShellPostProcessor", "PostProcessor"}

\* Script paths a configuration may name, and temporary-file names.
ScriptPaths == {"a.sh", "b.sh"}
TempNames == {"/tmp/packer-shell1", "/tmp/packer-shell2"}
Artifacts == {"A", "B"}

\* common.PackerConfig of the surrounding build
PackerBuildName == <<"b">>
PackerBuilderType == <<"t">>

\* os.Environ(): the ambient environment of the host process
Environ == << <<"PATH", "=", "p">>, <<"k", "=", "a">> >>

----------------------------------------------------------------------------
(* strings *)

\* strings.Index(s, "=") + 1, 0 when s holds no "="
RECURSIVE IndexEq(_, _)
IndexEq(s, i) ==
    IF i > Len(s) THEN 0
    ELSE IF s[i] = "=" THEN i
    ELSE IndexEq(s, i + 1)

\* strings.SplitN(kv, "=", 2)
SplitN2(kv) ==
    LET i == IndexEq(kv, 1)
    IN  IF i = 0 THEN <<kv>>
        ELSE <<SubSeq(kv, 1, i - 1), SubSeq(kv, i + 1, Len(kv))>>

\* strings.Replace(v, "'", `'"'"'`, -1)
RECURSIVE ReplaceQuotes(_)
ReplaceQuotes(v) ==
    IF v = <<>> THEN <<>>
    ELSE (IF Head(v) = "'" THEN <<"'", "\"", "'", "\"", "'">> ELSE <<Head(v)>>)
         \o ReplaceQuotes(Tail(v))

\* fmt.Sprintf("%s=%s", k, v)
KeyValue(k, v) == k \o <<"=">> \o v

White == {" ", "\n"}

\* strings.TrimSpace
RECURSIVE TrimLeft(_)
TrimLeft(s) == IF s # <<>> /\ Head(s) \in White THEN TrimLeft(Tail(s)) ELSE s
RECURSIVE TrimRight(_)
TrimRight(s) ==
    IF s # <<>> /\ s[Len(s)] \in White THEN TrimRight(SubSeq(s, 1, Len(s) - 1))
    ELSE s
TrimSpace(s) == TrimRight(TrimLeft(s))

----------------------------------------------------------------------------
(* errors *)

ErrOnlyOne == [kind |-> "OnlyOneScript", path |-> "", kv |-> <<>>]
ErrEither == [kind |-> "EitherScriptOrInline", path |-> "", kv |-> <<>>]
ErrNotBoth == [kind |-> "NotBoth", path |-> "", kv |-> <<>>]
ErrBadScript(p) == [kind |-> "BadScript", path |-> p, kv |-> <<>>]
ErrEnvFormat(e) == [kind |-> "EnvFormat", path |-> "", kv |-> e]

\* packer.MultiErrorAppend(errs, e) when cond holds
AppendIf(es, cond, e) == IF cond THEN Append(es, e) ELSE es

----------------------------------------------------------------------------
(* Config and its decoding *)

\* The zero value of Config
ZeroConfig ==
    [Inline |-> NilSlice, InlineShebang |-> "", Script |-> "",
     Scripts |-> NilSlice, Vars |-> NilSlice, KeepInputArtifact |-> FALSE]

\* The fields of the two Config structs: the first generation has no
\* KeepInputArtifact field, so nothing the user writes reaches it.
Decoded(g, c) ==
    IF g = "PostProcessor" THEN c
    ELSE [c EXCEPT !.KeepInputArtifact = FALSE]

----------------------------------------------------------------------------
(* Configure, step by step *)

\* Mutant of NormalizeInline: an empty inline collection is left as it is.
NormalizeInlineKept(c) == c

\* if p.config.Inline != nil && len(p.config.Inline) == 0 { Inline = nil }
NormalizeInline(c) ==
    IF ~c.Inline.isNil /\ Len(c.Inline.elems) = 0
    THEN [c EXCEPT !.Inline = NilSlice]
    ELSE c

\* if InlineShebang == "" { InlineShebang = dflt }
DefaultShebang(c, dflt) ==
    IF c.InlineShebang = "" THEN [c EXCEPT !.InlineShebang = dflt] ELSE c

\* if Scripts == nil { Scripts = make([]string, 0) }; the same for Vars
MakeSlices(c) ==
    [c EXCEPT !.Scripts = IF @.isNil THEN MkSlice(<<>>) ELSE @,
              !.Vars = IF @.isNil THEN MkSlice(<<>>) ELSE @]

\* Mutant of CheckOnlyOne: the conflict is seen only with several scripts.
CheckOnlyOneSeveral(es, c) ==
    AppendIf(es, c.Script # "" /\ Len(c.Scripts.elems) > 1, ErrOnlyOne)

\* if Script != "" && len(Scripts) > 0 { append "Only one of script or scripts" }
CheckOnlyOne(es, c) ==
    AppendIf(es, c.Script # "" /\ Len(c.Scripts.elems) > 0, ErrOnlyOne)

\* Mutant of CollapseScript: the single script is added only to a non-empty list.
CollapseScriptAppend(c) ==
    IF c.Script # "" /\ Len(c.Scripts.elems) > 0
    THEN [c EXCEPT !.Scripts = MkSlice(<<c.Script>>)]
    ELSE c

\* Mutant of CollapseScript: the single script is added to the multi-script list.
CollapseScriptJoined(c) ==
    IF c.Script # "" THEN [c EXCEPT !.Scripts = MkSlice(c.Scripts.elems \o <<c.Script>>)]
    ELSE c

\* if Script != "" { Scripts = []string{Script} }
CollapseScript(c) ==
    IF c.Script # "" THEN [c EXCEPT !.Scripts = MkSlice(<<c.Script>>)] ELSE c

\* if len(Scripts) == 0 && Inline == nil {...} else if len(Scripts) > 0 && Inline != nil {...}
CheckScriptOrInline(es, c) ==
    IF Len(c.Scripts.elems) = 0 /\ c.Inline.isNil THEN Append(es, ErrEither)
    ELSE IF Len(c.Scripts.elems) > 0 /\ ~c.Inline.isNil THEN Append(es, ErrNotBoth)
    ELSE es

\* Mutant of StatScripts: the loop ends at the first path that fails.
RECURSIVE StatScriptsFirst(_, _, _)
StatScriptsFirst(es, paths, fsNow) ==
    IF paths = <<>> THEN es
    ELSE IF Head(paths) \notin fsNow THEN Append(es, ErrBadScript(Head(paths)))
    ELSE StatScriptsFirst(es, Tail(paths), fsNow)

\* for _, path := range Scripts { if os.Stat(path) fails { append "Bad script" } }
RECURSIVE StatScripts(_, _, _)
StatScripts(es, paths, fsNow) ==
    IF paths = <<>> THEN es
    ELSE StatScripts(AppendIf(es, Head(paths) \notin fsNow, ErrBadScript(Head(paths))),
                     Tail(paths), fsNow)

\* Mutant of BadEnvEntry: the empty key is not looked for.
BadEnvEntryNoKey(kv) == Len(SplitN2(kv)) # 2

\* len(vs) != 2 || vs[0] == ""
BadEnvEntry(kv) ==
    LET vs == SplitN2(kv) IN Len(vs) # 2 \/ vs[1] = <<>>

\* the else branch of the second generation: quote-replace the value and store
\* fmt.Sprintf("%s=%s", vs[0], vs[1])
NormalizeEntry(kv) ==
    LET vs == SplitN2(kv) IN KeyValue(vs[1], ReplaceQuotes(vs[2]))

\* for _, kv := range Vars { if bad { append "Environment variable not in format" } }
RECURSIVE CheckVars(_, _)
CheckVars(es, kvs) ==
    IF kvs = <<>> THEN es
    ELSE CheckVars(AppendIf(es, BadEnvEntry(Head(kvs)), ErrEnvFormat(Head(kvs))),
                   Tail(kvs))

\* p.config.Vars after the loop of the second generation
NormalizeVars(kvs) ==
    [i \in 1..Len(kvs) |->
        IF BadEnvEntry(kvs[i]) THEN kvs[i] ELSE NormalizeEntry(kvs[i])]

\* (*ShellPostProcessor).Configure from the decoded Config on
ShellPostProcessorConfigure(c, fsNow) ==
    LET c1 == DefaultShebang(c, "/bin/sh")
        c2 == MakeSlices(c1)
        e1 == CheckOnlyOne(<<>>, c2)
        c3 == CollapseScript(c2)
        e2 == CheckScriptOrInline(e1, c3)
        e3 == StatScripts(e2, c3.Scripts.elems, fsNow)
        e4 == CheckVars(e3, c3.Vars.elems)
    IN  [config |-> c3, errs |-> e4]

\* (*PostProcessor).Configure from the decoded Config on
PostProcessorConfigure(c, fsNow) ==
    LET c0 == NormalizeInline(c)
        c1 == DefaultShebang(c0, "/bin/sh -e")
        c2 == MakeSlices(c1)
        e1 == CheckOnlyOne(<<>>, c2)
        c3 == CollapseScript(c2)
        e2 == CheckScriptOrInline(e1, c3)
        e3 == StatScripts(e2, c3.Scripts.elems, fsNow)
        e4 == CheckVars(e3, c3.Vars.elems)
        c4 == [c3 EXCEPT !.Vars = MkSlice(NormalizeVars(c3.Vars.elems))]
    IN  [config |-> c4, errs |-> e4]

ConfigureResult(g, c, fsNow) ==
    IF g = "PostProcessor" THEN PostProcessorConfigure(c, fsNow)
    ELSE ShellPostProcessorConfigure(c, fsNow)

----------------------------------------------------------------------------
(* Inputs *)

\* inline: absent, present and empty, one command
InlineChoices == {NilSlice, MkSlice(<<>>), MkSlice(<<"echo hi">>)}

\* environment_vars of the configurations of Spec: absent, a valid entry whose
\* value holds a single quote, an entry without '='
MainVars == {NilSlice, MkSlice(<< <<"k", "=", "'">> >>), MkSlice(<< <<"k">> >>)}

\* inline_shebang is given only together with inline commands
RawConfigs ==
    { c \in [Inline : InlineChoices, InlineShebang : {"", "/bin/bash"},
             Script : {""} \cup ScriptPaths,
             Scripts : SlicesUpTo(ScriptPaths, MaxScripts),
             Vars : MainVars, KeepInputArtifact : BOOLEAN] :
        c.InlineShebang # "" => Len(c.Inline.elems) > 0 }

\* environment_vars entries of the configurations of SpecEnv
EnvEntries ==
    { <<>>, <<"k">>, <<"=">>, <<"=", "v">>, <<"k", "=">>, <<"k", "=", "v">>,
      <<"k", "=", "'">>, <<"j", "=", "v", "'", "w">>, <<"j", "=", "=">> }

RawEnvConfigs ==
    [Inline : {NilSlice}, InlineShebang : {""}, Script : {"a.sh"},
     Scripts : {NilSlice}, Vars : SlicesUpTo(EnvEntries, MaxVars),
     KeepInputArtifact : {FALSE}]

ArtifactLists == SeqsUpTo(Artifacts, MaxArtifacts)

\* what one script run may write to its stderr and stdout
StderrOutputs == {<<>>, <<"e", "\n">>}
StdoutOutputs == {<<>>, <<"o">>}

\* what the shell writes to stderr when the script file is not there
NotFound == <<"?", "\n">>

----------------------------------------------------------------------------
(* Initial state: a new processor, nothing configured, nothing running *)

NoRet ==
    [returned |-> FALSE, isNil |-> TRUE, artifact |-> <<>>, keep |-> FALSE,
     err |-> "", text |-> <<>>]

Init ==
    /\ gen \in Generations
    /\ fs \in SUBSET ScriptPaths
    /\ raw = ZeroConfig
    /\ config = ZeroConfig
    /\ cfgRet = "none"
    /\ errs = <<>>
    /\ pc = "idle"
    /\ files = <<>>
    /\ keep = FALSE
    /\ scripts = <<>>
    /\ tmp = ""
    /\ created = 0
    /\ cmdEnv = <<>>
    /\ ai = 1
    /\ si = 1
    /\ stdout = <<>>
    /\ stderr = <<>>
    /\ handles = <<>>
    /\ log = <<>>
    /\ failure = ""
    /\ ret = NoRet
    /\ wrote = <<>>
    /\ rerun = FALSE

----------------------------------------------------------------------------
(* Configure *)

ConfigureOf(rawSet) ==
    /\ cfgRet = "none"
    /\ \E c \in rawSet :
         LET r == ConfigureResult(gen, Decoded(gen, c), fs)
         IN  /\ raw' = c
             /\ config' = r.config
             /\ errs' = r.errs
             /\ cfgRet' = IF Len(r.errs) > 0 THEN "error" ELSE "ok"
    /\ UNCHANGED <<gen, fs, runVars>>

Configure == ConfigureOf(RawConfigs)
ConfigureEnv == ConfigureOf(RawEnvConfigs)

----------------------------------------------------------------------------
(* PostProcess *)

\* keep := p.config.KeepInputArtifact; the first generation has no such local
KeepLocal == IF gen = "PostProcessor" THEN config.KeepInputArtifact ELSE FALSE

\* scripts := make(...); copy(scripts, p.config.Scripts); if Inline != nil {...
BeginOf(artSet) ==
    /\ cfgRet = "ok"
    /\ pc = "idle"
    /\ \E f \in artSet : files' = f
    /\ keep' = KeepLocal
    /\ scripts' = config.Scripts.elems
    /\ pc' = IF ~config.Inline.isNil THEN "tempfile" ELSE "env"
    /\ tmp' = ""
    /\ created' = 0
    /\ cmdEnv' = <<>>
    /\ ai' = 1
    /\ si' = 1
    /\ stdout' = <<>>
    /\ stderr' = <<>>
    /\ handles' = <<>>
    /\ log' = <<>>
    /\ failure' = ""
    /\ ret' = NoRet
    /\ wrote' = <<>>
    /\ rerun' = ret.returned
    /\ UNCHANGED <<cfgVars, fs>>

Begin == BeginOf(ArtifactLists)
BeginEnv == BeginOf({<<"A">>})

\* Mutant of ConfigAfterAppend: the path is appended to the configured list.
ConfigAfterAppendShared(n) == [config EXCEPT !.Scripts.elems = Append(@, n)]

\* scripts is a copy (make, copy) of p.config.Scripts, so the append of
\* tf.Name() to it leaves the configuration as it is
ConfigAfterAppend(n) == config

\* tf, err := ioutil.TempFile("", "packer-shell"); defer os.Remove(tf.Name());
\* scripts = append(scripts, tf.Name())
TempFileOk ==
    /\ pc = "tempfile"
    /\ \E n \in TempNames \ fs :
         /\ fs' = fs \cup {n}
         /\ tmp' = n
         /\ scripts' = Append(scripts, n)
         /\ config' = ConfigAfterAppend(n)
    /\ created' = created + 1
    /\ pc' = "write"
    /\ UNCHANGED <<gen, raw, cfgRet, errs, files, keep, cmdEnv, ai, si, stdout, stderr,
                   handles, log, failure, ret,
                   wrote, rerun>>

\* ... if err != nil { return nil, false, "Error preparing shell script" }
TempFileFail ==
    /\ pc = "tempfile"
    /\ failure' = "tempfile"
    /\ pc' = "return"
    /\ UNCHANGED <<cfgVars, fs, files, keep, scripts, tmp, created, cmdEnv, ai,
                   si, stdout, stderr, handles, log, ret,
                   wrote, rerun>>

\* writer.WriteString(...) for the shebang and every command, writer.Flush(),
\* tf.Close(): all succeed, or a WriteString fails, or Flush fails
WriteInline ==
    /\ pc = "write"
    /\ \E outcome \in {"", "write", "flush"} :
         /\ failure' = outcome
         /\ pc' = IF outcome = "" THEN "env" ELSE "return"
    /\ UNCHANGED <<cfgVars, fs, files, keep, scripts, tmp, created, cmdEnv, ai,
                   si, stdout, stderr, handles, log, ret,
                   wrote, rerun>>

\* envVars[0], envVars[1]: the second generation single-quotes the values
BuildVar(name, value) ==
    IF gen = "PostProcessor" THEN <<name, "=", "'">> \o value \o <<"'">>
    ELSE <<name, "=">> \o value

\* envVars := make(...); envVars[0] = ...; envVars[1] = ...; copy(envVars[2:], Vars)
EnvVars ==
    << BuildVar("PACKER_BUILD_NAME", PackerBuildName),
       BuildVar("PACKER_BUILDER_TYPE", PackerBuilderType) >>
    \o config.Vars.elems

\* Mutant of CmdEnv: the ambient environment comes after the assignments.
CmdEnvAmbientLast == IF gen = "PostProcessor" THEN EnvVars \o Environ ELSE EnvVars

\* cmd.Env = append(os.Environ(), envVars...)  /  cmd.Env = envVars
CmdEnv == IF gen = "PostProcessor" THEN Environ \o EnvVars ELSE EnvVars

\* What the spawned process sees for key k, given cmd.Env: the entries reach
\* the process as they are, and of several entries with one key the last counts.
Getenv(env, k) ==
    LET at == {i \in 1..Len(env) :
                  IndexEq(env[i], 1) > 0 /\ SplitN2(env[i])[1] = k}
        last == CHOOSE i \in at : \A j \in at : j <= i
    IN  IF at = {} THEN [set |-> FALSE, value |-> <<>>]
        ELSE [set |-> TRUE, value |-> SplitN2(env[last])[2]]

BuildEnv ==
    /\ pc = "env"
    /\ cmdEnv' = CmdEnv
    /\ pc' = "loop"
    /\ UNCHANGED <<cfgVars, fs, files, keep, scripts, tmp, created, ai, si,
                   stdout, stderr, handles, log, failure, ret,
                   wrote, rerun>>

\* the two range loops: is there a pair (files[ai], scripts[si]) left
MorePairs == ai <= Len(files) /\ si <= Len(scripts)

\* the loops are over: return artifact, keep, nil
LoopDone ==
    /\ pc = "loop"
    /\ ~MorePairs
    /\ pc' = "return"
    /\ wrote' = <<>>
    /\ UNCHANGED <<cfgVars, fs, files, keep, scripts, tmp, created, cmdEnv, ai,
                   si, stdout, stderr, handles, log, failure, ret,
                   rerun>>

\* Mutant of ResetBuffer: the buffer keeps what it holds.
ResetBufferKept(b) == b

\* stdout.Reset(), stderr.Reset()
ResetBuffer(b) == <<>>

\* Mutant of AfterOpen: the error of os.Open is not looked at.
AfterOpenIgnored(ok) == "exec"

\* if err != nil { return nil, false, "Error opening shell script" }
AfterOpen(ok) == IF ok THEN "exec" ELSE "return"

\* stdout.Reset(); stderr.Reset(); f, err := os.Open(path); defer f.Close()
OpenScript ==
    /\ pc = "loop"
    /\ MorePairs
    /\ stdout' = ResetBuffer(stdout)
    /\ stderr' = ResetBuffer(stderr)
    /\ wrote' = <<>>
    /\ pc' = AfterOpen(scripts[si] \in fs)
    /\ IF scripts[si] \in fs
       THEN /\ handles' = Append(handles, scripts[si])
            /\ UNCHANGED failure
       ELSE /\ failure' = "open"
            /\ UNCHANGED handles
    /\ UNCHANGED <<cfgVars, fs, files, keep, scripts, tmp, created, cmdEnv, ai,
                   si, log, ret,
                   rerun>>

\* Mutant of NextPair: the loops are nested the other way round.
NextPairScriptMajor == IF ai < Len(files) THEN <<ai + 1, si>> ELSE <<1, si + 1>>

\* Mutant of NextPair: the loops do not advance.
NextPairStay == <<ai, si>>

\* the position after the pair (ai, si) in the nested loops
NextPair == IF si < Len(scripts) THEN <<ai, si + 1>> ELSE <<ai + 1, 1>>

Invocation(status) ==
    [art |-> files[ai], script |-> scripts[si], ai |-> ai, si |-> si,
     status |-> status]

\* cmd.Run() starts the shell with the script and the artifact
StartScript ==
    /\ pc = "exec"
    /\ log' = Append(log, Invocation("running"))
    /\ pc' = "running"
    /\ UNCHANGED <<cfgVars, fs, files, keep, scripts, tmp, created, cmdEnv, ai,
                   si, stdout, stderr, handles, failure, ret,
                   wrote, rerun>>

\* Mutant of AfterExit: a failed script does not end the run.
AfterExitContinue(ok) == "loop"

\* if err != nil { return nil, false, "Error executing script" }, else go on
AfterExit(ok) == IF ok THEN "loop" ELSE "return"

\* cmd.Run() returns: the process has written its output and exited; a script
\* file that is not there any more makes the shell exit non-zero
ExitScript ==
    /\ pc = "running"
    /\ \E ok \in BOOLEAN, out \in StdoutOutputs, eo \in StderrOutputs \cup {NotFound} :
         /\ (scripts[si] \notin fs) => (~ok /\ eo = NotFound /\ out = <<>>)
         /\ (scripts[si] \in fs) => eo # NotFound
         /\ stdout' = stdout \o out
         /\ stderr' = stderr \o eo
         /\ wrote' = eo
         /\ log' = [log EXCEPT ![Len(log)].status = IF ok THEN "ok" ELSE "failed"]
         /\ failure' = IF ok THEN failure ELSE "exec"
         /\ pc' = AfterExit(ok)
         /\ IF AfterExit(ok) = "loop"
            THEN /\ ai' = NextPair[1]
                 /\ si' = NextPair[2]
            ELSE UNCHANGED <<ai, si>>
    /\ UNCHANGED <<cfgVars, fs, files, keep, scripts, tmp, created, cmdEnv,
                   handles, ret,
                   rerun>>

\* the text of the returned error: the second generation trims the captured stderr
ErrorText ==
    IF failure # "exec" THEN <<>>
    ELSE IF gen = "PostProcessor" THEN TrimSpace(stderr)
    ELSE stderr

\* the values of the return statement reached
ReturnValue ==
    IF failure = ""
    THEN [returned |-> TRUE, isNil |-> FALSE, artifact |-> files,
          keep |-> keep, err |-> "", text |-> <<>>]
    ELSE [returned |-> TRUE, isNil |-> TRUE, artifact |-> <<>>,
          keep |-> FALSE, err |-> failure, text |-> ErrorText]

\* Mutant of AfterRemove: the temporary file is removed at the end of the
\* successful path only.
AfterRemoveOnSuccess == IF tmp = "" \/ failure # "" THEN fs ELSE fs \ {tmp}

\* the files that the deferred os.Remove(tf.Name()) leaves
AfterRemove == IF tmp = "" THEN fs ELSE fs \ {tmp}

\* return: the deferred calls run (every f.Close(), then os.Remove(tf.Name()))
\* and the capture buffers go out of scope
Return ==
    /\ pc = "return"
    /\ ret' = ReturnValue
    /\ handles' = <<>>
    /\ fs' = AfterRemove
    /\ stdout' = <<>>
    /\ stderr' = <<>>
    /\ pc' = "idle"
    /\ UNCHANGED <<cfgVars, files, keep, scripts, tmp, created, cmdEnv, ai, si,
                   log, failure,
                   wrote, rerun>>

----------------------------------------------------------------------------
(* The environment: a configured script is removed after validation *)

RemoveScript ==
    /\ cfgRet = "ok"
    /\ \E p \in fs \cap ScriptPaths : fs' = fs \ {p}
    /\ UNCHANGED <<cfgVars, runVars>>

----------------------------------------------------------------------------
(* Specifications *)

Next ==
    \/ Configure
    \/ Begin
    \/ TempFileOk
    \/ TempFileFail
    \/ WriteInline
    \/ BuildEnv
    \/ LoopDone
    \/ OpenScript
    \/ StartScript
    \/ ExitScript
    \/ Return
    \/ RemoveScript

Spec == Init /\ [][Next]_vars

\* Environment handling: one script, one artifact, every environment_vars list
NextEnv ==
    \/ ConfigureEnv
    \/ BeginEnv
    \/ BuildEnv
    \/ LoopDone
    \/ OpenScript
    \/ StartScript
    \/ ExitScript
    \/ Return
    \/ RemoveScript

SpecEnv == Init /\ [][NextEnv]_vars

\* configurations of SpecLive: every script plan, no environment_vars
RawLiveConfigs ==
    [Inline : InlineChoices, InlineShebang : {""},
     Script : {""} \cup ScriptPaths,
     Scripts : SlicesUpTo(ScriptPaths, MaxScripts),
     Vars : {NilSlice}, KeepInputArtifact : {FALSE}]

ConfigureLive == ConfigureOf(RawLiveConfigs)

\* artifacts of SpecLive: file lists of every length, one file name
LiveArtifactLists == SeqsUpTo({"A"}, MaxArtifacts)

BeginLive == BeginOf(LiveArtifactLists)

\* a statement of PostProcess that does not wait for anything
PostProcessStep ==
    \/ TempFileOk
    \/ TempFileFail
    \/ WriteInline
    \/ BuildEnv
    \/ LoopDone
    \/ OpenScript
    \/ StartScript
    \/ Return

NextLive ==
    \/ ConfigureLive
    \/ BeginLive
    \/ PostProcessStep
    \/ ExitScript
    \/ RemoveScript

\* Progress: PostProcess runs in one goroutine that is never suspended except
\* in cmd.Run(), and every spawned process exits (so cmd.Run() returns)
SpecLive ==
    Init /\ [][NextLive]_vars /\ WF_vars(PostProcessStep) /\ WF_vars(ExitScript)

----------------------------------------------------------------------------
(* Properties *)

IsPostProcessor == gen = "PostProcessor"

\* PostProcess has returned and has not been called again
Returned == pc = "idle" /\ ret.returned

\* The cross product of artifacts fl and scripts sl, artifact-major, as the
\* invocations of a run in which all succeed
ArtifactMajor(fl, sl) ==
    [k \in 1..(Len(fl) * Len(sl)) |->
        LET a == ((k - 1) \div Len(sl)) + 1
            b == ((k - 1) % Len(sl)) + 1
        IN  [art |-> fl[a], script |-> sl[b], ai |-> a, si |-> b, status |-> "ok"]]

SamePair(x, y) ==
    x.art = y.art /\ x.script = y.script /\ x.ai = y.ai /\ x.si = y.si

\* C1: (PostProcessor) at every moment of a run the invocations made so far are
\* the first ones of the artifact-major cross product of the artifact list and
\* the working script list, and when PostProcess returns with no step failed
\* they are exactly that cross product, each pair once, all succeeded.
C1_ArtifactMajorOrder ==
    IsPostProcessor =>
        LET want == ArtifactMajor(files, scripts)
        IN  /\ Len(log) <= Len(want)
            /\ \A i \in 1..Len(log) : SamePair(log[i], want[i])
            /\ (Returned /\ failure = "") => log = want

\* C1 witness: two distinct artifacts and two distinct scripts, all four
\* invocations made and succeeded.
C1_Witness ==
    /\ IsPostProcessor
    /\ Returned
    /\ failure = ""
    /\ files = <<"A", "B">>
    /\ scripts = <<"a.sh", "b.sh">>
    /\ Len(log) = 4

\* C2: (both generations) a failed invocation is the last invocation of its
\* run: after it no pair is opened or run, and PostProcess returns an error
\* with a nil artifact.
C2_StopAtFirstFailure ==
    /\ \A i \in 1..Len(log) : log[i].status = "failed" => i = Len(log)
    /\ (log # <<>> /\ log[Len(log)].status = "failed") =>
          /\ pc \in {"return", "idle"}
          /\ failure = "exec"
          /\ pc = "idle" => (ret.returned /\ ret.err = "exec" /\ ret.isNil)

\* C2 witness: S1(A) failed with artifacts [A, B] and scripts [S1, S2], and
\* PostProcess returned with that one invocation made.
C2_Witness ==
    /\ Returned
    /\ Len(files) = 2
    /\ Len(scripts) = 2
    /\ Len(log) = 1
    /\ log[1].status = "failed"
    /\ ret.err = "exec"

\* A validated plan with inline commands and no explicit scripts
InlineOnlyPlan ==
    cfgRet = "ok" /\ ~config.Inline.isNil /\ config.Scripts.elems = <<>>

\* C3: (PostProcessor, inline-only plan) a run creates at most one temporary
\* file, and exactly one once ioutil.TempFile has succeeded; that file is the
\* whole working script list; it is invoked once per artifact, in artifact
\* order, until a failure; it exists from its creation until PostProcess
\* returns, and no temporary file exists once PostProcess has returned,
\* whatever the exit path.
C3_TemporaryScript ==
    (IsPostProcessor /\ InlineOnlyPlan) =>
        /\ created <= 1
        /\ (created = 1) <=> (tmp # "")
        /\ ((pc \notin {"idle", "tempfile"} \/ Returned) /\ failure # "tempfile")
              => (created = 1 /\ scripts = <<tmp>>)
        /\ fs \cap TempNames = (IF tmp # "" /\ pc # "idle" THEN {tmp} ELSE {})
        /\ \A i \in 1..Len(log) : log[i].script = tmp /\ log[i].ai = i
        /\ (Returned /\ failure = "") => Len(log) = Len(files)

\* C3 witness: an inline-only run over two artifacts whose second invocation
\* failed has returned, and its temporary file is gone.
C3_Witness ==
    /\ IsPostProcessor
    /\ InlineOnlyPlan
    /\ Returned
    /\ failure = "exec"
    /\ Len(files) = 2
    /\ Len(log) = 2
    /\ created = 1
    /\ tmp \notin fs

\* C4: (both generations) after Configure returns without error exactly one
\* of the script sequence and the inline commands is non-empty.
C4_ExactlyOnePlan ==
    cfgRet = "ok" =>
        ~((Len(config.Scripts.elems) > 0) <=> (Len(config.Inline.elems) > 0))

Has(es, e) == \E i \in 1..Len(es) : es[i] = e

\* C5: (PostProcessor) whenever the decoded single-script field and the decoded
\* multi-script field are both non-empty, Configure returns an error that holds
\* the "only one of script or scripts" error.
C5_OnlyOneOfScriptOrScripts ==
    (IsPostProcessor /\ cfgRet # "none"
       /\ raw.Script # "" /\ Len(raw.Scripts.elems) > 0)
    => (cfgRet = "error" /\ Has(errs, ErrOnlyOne))

\* C5 witness: both script fields set, together with inline commands and a
\* malformed environment entry; Configure has returned its error.
C5_Witness ==
    /\ IsPostProcessor
    /\ cfgRet = "error"
    /\ raw.Script = "a.sh"
    /\ raw.Scripts.elems = <<"b.sh">>
    /\ Len(raw.Inline.elems) > 0
    /\ raw.Vars.elems = << <<"k">> >>
    /\ Has(errs, ErrOnlyOne)

\* C6: (PostProcessor) whenever the decoded configuration has no single script,
\* no scripts and no inline commands, Configure returns an error that holds the
\* "either a script file or inline script must be specified" error.
C6_EitherScriptOrInline ==
    (IsPostProcessor /\ cfgRet # "none"
       /\ raw.Script = "" /\ Len(raw.Scripts.elems) = 0 /\ Len(raw.Inline.elems) = 0)
    => (cfgRet = "error" /\ Has(errs, ErrEither))

\* C6 witness: nothing to run, the inline collection present but empty.
C6_Witness ==
    /\ IsPostProcessor
    /\ cfgRet = "error"
    /\ raw.Script = ""
    /\ raw.Scripts = NilSlice
    /\ raw.Inline = MkSlice(<<>>)
    /\ Has(errs, ErrEither)

\* An entry that is not key=value with a non-empty key: it holds no '=', or its
\* first '=' is its first character.
Malformed(kv) ==
    \/ \A i \in 1..Len(kv) : kv[i] # "="
    \/ (kv # <<>> /\ kv[1] = "=")

IsEnvFormat(e) == e.kind = "EnvFormat"
EnvFormatErrors == SelectSeq(errs, IsEnvFormat)
MalformedEntries == SelectSeq(raw.Vars.elems, Malformed)

\* C7: (PostProcessor) the "not in format key=value" errors of the returned
\* error are, in order, one for each malformed entry of environment_vars, each
\* naming that entry's raw string, and none for any other entry; Configure
\* fails when there is such an entry.
C7_MalformedEnvironmentEntries ==
    (IsPostProcessor /\ cfgRet # "none") =>
        /\ Len(EnvFormatErrors) = Len(MalformedEntries)
        /\ \A i \in 1..Len(MalformedEntries) :
              EnvFormatErrors[i] = ErrEnvFormat(MalformedEntries[i])
        /\ MalformedEntries # <<>> => cfgRet = "error"

\* C7 witness: a well-formed entry followed by an entry with an empty key;
\* Configure has returned one format error.
C7_Witness ==
    /\ IsPostProcessor
    /\ cfgRet = "error"
    /\ raw.Vars.elems = << <<"k", "=", "'">>, <<"=", "v">> >>
    /\ Len(EnvFormatErrors) = 1

HasQuote(v) == \E i \in 1..Len(v) : v[i] = "'"

\* C8: (PostProcessor) while a script runs, for every well-formed entry
\* key=value of environment_vars whose value holds a single quote (and that is
\* the last entry of its key), the value the script sees for key is the
\* value as it was configured.
C8_EnvValueRoundTrip ==
    (IsPostProcessor /\ pc = "running") =>
        \A i \in 1..Len(raw.Vars.elems) :
            LET kv == raw.Vars.elems[i]
                vs == SplitN2(kv)
            IN  (/\ ~Malformed(kv)
                 /\ HasQuote(vs[2])
                 /\ \A j \in (i + 1)..Len(raw.Vars.elems) :
                       SplitN2(raw.Vars.elems[j])[1] # vs[1])
                => Getenv(cmdEnv, vs[1]) = [set |-> TRUE, value |-> vs[2]]

\* C9: (PostProcessor) a non-empty single-script field s with an empty or
\* absent multi-script field leaves the script sequence <<s>>.
C9_SingleScriptCollapsed ==
    (IsPostProcessor /\ cfgRet # "none"
       /\ raw.Script # "" /\ Len(raw.Scripts.elems) = 0)
    => config.Scripts = MkSlice(<<raw.Script>>)

\* C9 witness: script = "a.sh" and scripts = [] has been configured.
C9_Witness ==
    /\ IsPostProcessor
    /\ cfgRet = "ok"
    /\ raw.Script = "a.sh"
    /\ raw.Scripts = MkSlice(<<>>)
    /\ config.Scripts.elems = <<"a.sh">>

\* C10: (both generations) when PostProcess returns with no step failed it
\* returns the artifact it was given, the keep_input_artifact flag of the
\* configuration, and no error.
C10_ReturnsArtifactAndKeep ==
    (Returned /\ failure = "") =>
        /\ ~ret.isNil
        /\ ret.artifact = files
        /\ ret.keep = raw.KeepInputArtifact
        /\ ret.err = ""

IsBadScript(e) == e.kind = "BadScript"
BadScriptErrors == SelectSeq(errs, IsBadScript)
IsMissing(p) == p \notin fs
MissingScripts == SelectSeq(config.Scripts.elems, IsMissing)

\* C11: (PostProcessor) when Configure has failed (the filesystem is still the
\* one it saw), its error holds, in order, one "bad script" error for every
\* path of the resolved script sequence that does not exist, also after an
\* earlier one, and one format error for every malformed environment entry:
\* with k missing paths and m malformed entries it holds at least k + m errors.
C11_ErrorsAggregated ==
    (IsPostProcessor /\ cfgRet = "error") =>
        /\ Len(BadScriptErrors) = Len(MissingScripts)
        /\ \A i \in 1..Len(MissingScripts) :
              BadScriptErrors[i] = ErrBadScript(MissingScripts[i])
        /\ Len(EnvFormatErrors) = Len(MalformedEntries)
        /\ Len(errs) >= Len(MissingScripts) + Len(MalformedEntries)

\* C11 witness: two missing scripts and one malformed environment entry give
\* three errors in one result.
C11_Witness ==
    /\ IsPostProcessor
    /\ cfgRet = "error"
    /\ raw.Script = ""
    /\ MissingScripts = <<"a.sh", "b.sh">>
    /\ Len(MalformedEntries) = 1
    /\ Len(errs) = 3

\* C12: (both generations) an inline collection that is present but empty is
\* treated like an absent one: Configure gives no "not both" error for it,
\* gives the missing-specification error when there are no scripts either, and
\* PostProcess creates no temporary script for it.
C12_EmptyInlineIsAbsent ==
    (cfgRet # "none" /\ raw.Inline = MkSlice(<<>>)) =>
        /\ ~Has(errs, ErrNotBoth)
        /\ (raw.Script = "" /\ Len(raw.Scripts.elems) = 0) => Has(errs, ErrEither)
        /\ pc # "tempfile"
        /\ created = 0

\* C13: (PostProcessor) both capture buffers are empty when a script is
\* started, and the text of the error returned for a failed invocation is the
\* trimmed stderr that this invocation wrote, with nothing of what earlier
\* invocations of the run wrote.
C13_ErrorHoldsOwnStderr ==
    IsPostProcessor =>
        /\ pc \in {"exec", "running"} => (stderr = <<>> /\ stdout = <<>>)
        /\ (pc = "return" /\ failure = "exec") => stderr = wrote
        /\ (Returned /\ failure = "exec") => ret.text = TrimSpace(wrote)

\* C13 witness: the second invocation of a run failed after writing to stderr,
\* and PostProcess returned its text.
C13_Witness ==
    /\ IsPostProcessor
    /\ Returned
    /\ failure = "exec"
    /\ Len(log) = 2
    /\ log[1].status = "ok"
    /\ wrote = <<"e", "\n">>
    /\ ret.text = <<"e">>

\* C14: (PostProcessor) when a script cannot be opened as its pair is reached,
\* that pair is not invoked, the invocations made are the successful ones of
\* the pairs before it and no more, PostProcess returns (nil, false, error),
\* and Configure's result stays a success.
C14_OpenFailureEndsRun ==
    (IsPostProcessor /\ failure = "open") =>
        /\ pc \in {"return", "idle"}
        /\ Len(log) = (ai - 1) * Len(scripts) + (si - 1)
        /\ \A i \in 1..Len(log) :
              log[i].status = "ok" /\ ~(log[i].ai = ai /\ log[i].si = si)
        /\ pc = "idle" =>
              (ret.returned /\ ret.isNil /\ ~ret.keep /\ ret.err = "open")
        /\ cfgRet = "ok"
        /\ errs = <<>>

\* C14 witness: with keep_input_artifact set, two artifacts and two scripts,
\* the second script was removed after validation; the run made one invocation
\* and returned the open error.
C14_Witness ==
    /\ IsPostProcessor
    /\ Returned
    /\ failure = "open"
    /\ raw.KeepInputArtifact
    /\ Len(files) = 2
    /\ scripts = <<"a.sh", "b.sh">>
    /\ "b.sh" \notin fs
    /\ Len(log) = 1

\* C15: (both generations) at most one script file opened by PostProcess is
\* open at any time, and none is open when the next pair starts.
C15_HandlesReleasedPerIteration ==
    /\ Len(handles) <= 1
    /\ pc = "loop" => handles = <<>>

EnvKey(e) == SplitN2(e)[1]
EnvKeys(env) == {EnvKey(env[i]) : i \in 1..Len(env)}

\* C16: (PostProcessor) once built, the environment of the invocations is the
\* ambient environment, then PACKER_BUILD_NAME, then PACKER_BUILDER_TYPE, then
\* the normalized environment_vars entries in the order of the configuration;
\* and for a key set both in the ambient environment and by an assignment, the
\* script sees the value of the (last) assignment.
C16_EnvironmentOrder ==
    (IsPostProcessor /\ pc \in {"loop", "exec", "running", "return"}) =>
        LET n == Len(Environ)
            m == Len(raw.Vars.elems)
        IN  /\ Len(cmdEnv) = n + 2 + m
            /\ \A i \in 1..n : cmdEnv[i] = Environ[i]
            /\ EnvKey(cmdEnv[n + 1]) = <<"PACKER_BUILD_NAME">>
            /\ EnvKey(cmdEnv[n + 2]) = <<"PACKER_BUILDER_TYPE">>
            /\ \A j \in 1..m :
                  /\ cmdEnv[n + 2 + j] = config.Vars.elems[j]
                  /\ EnvKey(cmdEnv[n + 2 + j]) = EnvKey(raw.Vars.elems[j])
            /\ \A j \in 1..m :
                  (/\ EnvKey(raw.Vars.elems[j]) \in EnvKeys(Environ)
                   /\ \A l \in (j + 1)..m :
                         EnvKey(raw.Vars.elems[l]) # EnvKey(raw.Vars.elems[j]))
                  => Getenv(cmdEnv, EnvKey(raw.Vars.elems[j])).value
                        = SplitN2(config.Vars.elems[j])[2]

\* C16 witness: k is a in the ambient environment and the configuration
\* assigns k=v; a script is running and sees v.
C16_Witness ==
    /\ IsPostProcessor
    /\ pc = "running"
    /\ raw.Vars.elems = << <<"j", "=", "=">>, <<"k", "=", "v">> >>
    /\ Getenv(Environ, <<"k">>).value = <<"a">>
    /\ Getenv(cmdEnv, <<"k">>).value = <<"v">>

\* C17: (PostProcessor) at every moment after a successful Configure, during
\* and after any number of runs, the configuration (script sequence, inline
\* commands, environment assignments, keep flag) is what Configure left; it
\* holds no temporary path, and the working list of a run is the configured
\* sequence followed by at most the run's own temporary path.
C17_PlanUnchanged ==
    (IsPostProcessor /\ cfgRet = "ok") =>
        /\ config = ConfigureResult(gen, Decoded(gen, raw), fs).config
        /\ \A i \in 1..Len(config.Scripts.elems) :
              config.Scripts.elems[i] \notin TempNames
        /\ (pc # "idle" \/ ret.returned) =>
              scripts = config.Scripts.elems \o (IF tmp = "" THEN <<>> ELSE <<tmp>>)

\* C17 witness: PostProcess has returned once and runs again, with a temporary
\* inline script of its own.
C17_Witness ==
    /\ IsPostProcessor
    /\ rerun
    /\ pc = "running"
    /\ ~config.Inline.isNil
    /\ raw.KeepInputArtifact
    /\ scripts = <<tmp>>

\* the invocations of the current run that have not exited
InProgress == {i \in 1..Len(log) : log[i].status = "running"}

\* C18 (bounded part): a run makes at most |artifacts| x |working scripts|
\* invocations, and at most one of them is in progress: the last one, and
\* only while PostProcess waits in cmd.Run().
C18_Bounded ==
    /\ Len(log) <= Len(files) * Len(scripts)
    /\ InProgress \subseteq {Len(log)}
    /\ (InProgress # {}) <=> (pc = "running")

\* C18 (blocking part): while an invocation is in progress PostProcess does
\* nothing but wait: a step either is the exit of that process or leaves the
\* position, the invocations and the returned values as they are.
C18_Blocked ==
    (pc = "running") =>
        \/ log'[Len(log)].status \in {"ok", "failed"}
        \/ (pc' = "running" /\ log' = log /\ ai' = ai /\ si' = si /\ ret' = ret)

\* C18: provided every spawned process exits, a PostProcess that has started
\* returns, after at most |artifacts| x |working scripts| invocations with at
\* most one in progress at a time; as long as a process has not exited,
\* PostProcess does not return and no later pair starts.
C18_Termination ==
    /\ []C18_Bounded
    /\ [][C18_Blocked]_vars
    /\ ((pc # "idle") ~> (pc = "idle" /\ ret.returned))

\* C18 witness: a run over two artifacts and two scripts has returned after
\* four invocations, all of them ended.
C18_Witness ==
    /\ Returned
    /\ failure = ""
    /\ Len(files) = 2
    /\ Len(scripts) = 2
    /\ Len(log) = 4
    /\ InProgress = {}

\* C19: (PostProcessor) when both the single-script field and the multi-script
\* field are non-empty, Configure leaves the one-element sequence holding the
\* single script, and the only "bad script" error there can be is the one for
\* the single script, present exactly when that file is missing: the paths of
\* the multi-script field are neither checked nor kept.
C19_MultiScriptReplaced ==
    (IsPostProcessor /\ cfgRet # "none"
       /\ raw.Script # "" /\ Len(raw.Scripts.elems) > 0)
    => /\ config.Scripts.elems = <<raw.Script>>
       /\ BadScriptErrors =
             (IF raw.Script \in fs THEN <<>> ELSE <<ErrBadScript(raw.Script)>>)

\* C19 witness: script = "a.sh" (present) and scripts = ["b.sh"] (missing)
\* have been configured: no bad-script error, and b.sh is not in the sequence.
C19_Witness ==
    /\ IsPostProcessor
    /\ cfgRet = "error"
    /\ raw.Script = "a.sh"
    /\ raw.Scripts.elems = <<"b.sh">>
    /\ "a.sh" \in fs
    /\ "b.sh" \notin fs
    /\ BadScriptErrors = <<>>
    /\ config.Scripts.elems = <<"a.sh">>

====
